---- MODULE Spec2Model ----
(***************************************************************************)
(* Badminton signup & waitlist app (src/app.py): the `sessions` and        *)
(* `signups` worksheets and the operations on them.  One step of the model *)
(* is one request to the sheet (get_all_records, get_all_values,           *)
(* append_row, update_cell) together with the local computation that       *)
(* precedes it, so that the reads and writes of two browser sessions can   *)
(* interleave exactly where the requests of the code can.                  *)
(*                                                                         *)
(* A signup's id (a uuid4 in the code) is its row number in `rows`: rows   *)
(* are only ever appended and never deleted or moved, so both are unique   *)
(* and stable.  A session's id is likewise its index in `sessions`; the id *)
(* NoSession is an id no session has.  A name is a tuple of one-character  *)
(* strings.  Times are whole seconds (utc_now_str drops the microseconds). *)
(***************************************************************************)
EXTENDS Integers, Sequences, FiniteSets, TLC

\* ------------------------------------------------------------------ bounds
MaxRows == 3
MaxSessions == 1
MaxCapacity == 2
MaxTime == 1
ConcRows == 2
ConcCapacity == 1
RegRows == 3
RegCapacity == 2
PromRows == 3
PromCapacity == 2

Procs == {"p1", "p2"}
SeqProcs == {"p1"}
NoSession == 0
NameInputs == { <<"A">>, <<"a", " ">>, <<"b">>, <<"c">>, <<" ">> }
ConcNames == { <<"A">>, <<"a", " ">>, <<"b">> }
ConcRoles == {"core", "outsider"}
PromNames == { <<"A">>, <<"b">>, <<"c">> }
RoleInputs == {"core", "outsider", "guest"}

VARIABLES sessions, rows, now, pc, loc, last, before

vars == <<sessions, rows, now, pc, loc, last, before>>

\* ------------------------------------------------------------ pure helpers
Min(a, b) == IF a < b THEN a ELSE b
Max(a, b) == IF a > b THEN a ELSE b

IsSpace(c) == c = " "

RECURSIVE LStrip(_)
LStrip(s) == IF s # <<>> /\ IsSpace(Head(s)) THEN LStrip(Tail(s)) ELSE s

RECURSIVE RStrip(_)
RStrip(s) ==
  IF s # <<>> /\ IsSpace(s[Len(s)]) THEN RStrip(SubSeq(s, 1, Len(s) - 1)) ELSE s

\* str.strip()
Strip(s) == RStrip(LStrip(s))

LowerChar(c) == IF c = "A" THEN "a" ELSE IF c = "B" THEN "b" ELSE c

\* str.lower()
Lower(s) == [i \in 1..Len(s) |-> LowerChar(s[i])]

\* NameKey without the case folding
NameKey_NoLower(s) == Strip(s)

\* the key of the duplicate check: name.strip().lower()
NameKey(s) == Lower(Strip(s))

\* the row numbers in S, in sheet order (the order of a list comprehension
\* over get_all_records)
RECURSIVE InSheetOrder(_, _, _)
InSheetOrder(S, i, n) ==
  IF i > n THEN <<>>
  ELSE (IF i \in S THEN <<i>> ELSE <<>>) \o InSheetOrder(S, i + 1, n)

\* read_signups: the rows of the session that are not removed
ActiveRow(r, sid) == r.session_id = sid /\ r.status # "removed"

read_signups(data, sid) ==
  InSheetOrder({i \in 1..Len(data) : ActiveRow(data[i], sid)}, 1, Len(data))

\* list.sort(key=...) is stable: insert x after every element whose key is
\* not greater.  Keys are pairs <<tier, created_utc>>, compared as tuples;
\* key is the function from row number to key.
KeyLeq(k1, k2) == k1[1] < k2[1] \/ (k1[1] = k2[1] /\ k1[2] <= k2[2])

RECURSIVE InsertSorted(_, _, _)
InsertSorted(x, s, key) ==
  IF s = <<>> THEN <<x>>
  ELSE IF KeyLeq(key[Head(s)], key[x])
       THEN <<Head(s)>> \o InsertSorted(x, Tail(s), key)
       ELSE <<x>> \o s

RECURSIVE SortBy(_, _)
SortBy(s, key) ==
  IF s = <<>> THEN <<>>
  ELSE InsertSorted(s[Len(s)], SortBy(SubSeq(s, 1, Len(s) - 1), key), key)

\* PriorityKey without the role tier
PriorityKey_NoRole(r) == <<0, r.created_utc>>

\* apply_priority_logic's sort key: core first, then outsiders, by created_utc
PriorityKey(r) == <<IF r.role = "core" THEN 0 ELSE 1, r.created_utc>>

\* FillKey with the roles the other way round: core first
FillKey_CoreFirst(r) == <<IF r.role = "core" THEN 0 ELSE 1, r.created_utc>>

\* auto_fill_from_waitlist's sort key: outsiders first, then cores, by time
FillKey(r) == <<IF r.role = "outsider" THEN 0 ELSE 1, r.created_utc>>

Range(s) == {s[i] : i \in 1..Len(s)}

\* get_session_by_id
SessionExists(ss, sid) == sid \in 1..Len(ss)

\* ToConfirm with the comparison i <= capacity in place of i < capacity
ToConfirm_OffByOne(data, sid, capacity) ==
  LET signups == read_signups(data, sid)
      key == [i \in 1..Len(data) |-> PriorityKey(data[i])]
      sorted == SortBy(signups, key)
  IN {sorted[i] : i \in {j \in 1..Len(sorted) : j - 1 <= capacity}}

\* ToConfirm that stops one short of the capacity
ToConfirm_OneShort(data, sid, capacity) ==
  LET signups == read_signups(data, sid)
      key == [i \in 1..Len(data) |-> PriorityKey(data[i])]
      sorted == SortBy(signups, key)
  IN {sorted[i] : i \in {j \in 1..Len(sorted) : j < capacity}}

\* apply_priority_logic, lines 183-191: the ids to confirm
ToConfirm(data, sid, capacity) ==
  LET signups == read_signups(data, sid)
      key == [i \in 1..Len(data) |-> PriorityKey(data[i])]
      sorted == SortBy(signups, key)
  IN {sorted[i] : i \in {j \in 1..Len(sorted) : j - 1 < capacity}}

\* PriorityWrites that only ever writes "confirmed", never "waitlist"
RECURSIVE PriorityWrites_ConfirmOnly(_, _, _, _)
PriorityWrites_ConfirmOnly(data, sid, to_confirm, i) ==
  IF i > Len(data) THEN <<>>
  ELSE LET here == IF /\ data[i].session_id = sid
                      /\ data[i].status # "removed"
                      /\ i \in to_confirm
                      /\ data[i].status # "confirmed"
                   THEN << <<i, "confirmed">> >> ELSE <<>>
       IN here \o PriorityWrites_ConfirmOnly(data, sid, to_confirm, i + 1)

\* PriorityWrites without the test that the status differs from the desired
RECURSIVE PriorityWrites_All(_, _, _, _)
PriorityWrites_All(data, sid, to_confirm, i) ==
  IF i > Len(data) THEN <<>>
  ELSE LET desired == IF i \in to_confirm THEN "confirmed" ELSE "waitlist"
           here == IF data[i].session_id = sid /\ data[i].status # "removed"
                   THEN << <<i, desired>> >> ELSE <<>>
       IN here \o PriorityWrites_All(data, sid, to_confirm, i + 1)

\* apply_priority_logic, lines 198-203: the update_cell calls, in row order,
\* that the write-back loop makes for a snapshot `data` of the sheet
RECURSIVE PriorityWrites(_, _, _, _)
PriorityWrites(data, sid, to_confirm, i) ==
  IF i > Len(data) THEN <<>>
  ELSE LET desired == IF i \in to_confirm THEN "confirmed" ELSE "waitlist"
           here == IF data[i].session_id = sid /\ data[i].status # "removed"
                      /\ data[i].status # desired
                   THEN << <<i, desired>> >> ELSE <<>>
       IN here \o PriorityWrites(data, sid, to_confirm, i + 1)

\* auto_fill_from_waitlist, line 216-217
ConfirmedCount(data, sid) ==
  Cardinality({i \in Range(read_signups(data, sid)) : data[i].status = "confirmed"})

\* Remaining that takes every slot of the session for free
Remaining_AllFree(data, sid, capacity) == capacity

\* auto_fill_from_waitlist, lines 217-218: the free slots
Remaining(data, sid, capacity) == Max(0, capacity - ConfirmedCount(data, sid))

\* Candidates without the filter on the session
Candidates_AllSessions(data, sid) ==
  LET cands == InSheetOrder({i \in 1..Len(data) : data[i].status = "waitlist"},
                            1, Len(data))
      key == [i \in 1..Len(data) |-> FillKey(data[i])]
  IN SortBy(cands, key)

\* auto_fill_from_waitlist, lines 222-224
Candidates(data, sid) ==
  LET signups == read_signups(data, sid)
      cands == InSheetOrder({i \in Range(signups) : data[i].status # "confirmed"},
                            1, Len(data))
      key == [i \in 1..Len(data) |-> FillKey(data[i])]
  IN SortBy(cands, key)

\* Gated with <= in place of <
Gated_NotStrict(force, cutoff, t) == ~force /\ t <= cutoff

\* the cutoff gate of auto_fill_from_waitlist, line 212
Gated(force, cutoff, t) == ~force /\ t < cutoff

\* ws.update_cell(row, status column, value)
update_cell(data, i, value) == [data EXCEPT ![i].status = value]

\* ------------------------------------------------------------------- state
\* loc[p]: the locals of the call p is in.  Besides the code's own locals
\* (to_confirm, the pending writes, promoted, remaining) it remembers, for the
\* properties below, how many confirmed signups (conf0) and how many
\* candidates (wait0) auto_fill_from_waitlist read, and whether a recompute
\* directly follows a completed recompute of the same session, or a promotion
\* a completed registration on the same session (again).
NoLoc ==
  [op |-> "none", sid |-> NoSession, name |-> <<>>, role |-> "none",
   to_confirm |-> {}, writes |-> <<>>,
   promoted |-> 0, remaining |-> 0, nwrites |-> 0, conf0 |-> 0, wait0 |-> 0,
   again |-> FALSE]

\* last: the call that returned in the step leading to this state (NoLast
\* when that step was not a return), with its session and its result (and the
\* name a registration was refused for as a duplicate)
NoLast ==
  [op |-> "none", sid |-> NoSession, name |-> <<>>, result |-> "none",
   ret |-> <<0, 0>>,
   nwrites |-> 0, conf0 |-> 0, wait0 |-> 0, again |-> FALSE]

\* `before` is a history variable for the specification in which requests to
\* the sheet fail: the signups sheet as it was when the latest call was made.
\* It is kept only where it is switched on.
NoBefore == [on |-> FALSE, rows |-> <<>>]

Init ==
  /\ sessions = <<>>
  /\ rows = <<>>
  /\ now = 0
  /\ pc = [p \in Procs |-> "idle"]
  /\ loc = [p \in Procs |-> NoLoc]
  /\ last = NoLast
  /\ before = NoBefore

Begin(op, sid) == [NoLoc EXCEPT !.op = op, !.sid = sid]

\* the record of a completed call
Done(l, result, ret) ==
  [op |-> l.op, sid |-> l.sid,
   name |-> IF result = "duplicate" THEN l.name ELSE <<>>,
   result |-> result, ret |-> ret,
   nwrites |-> l.nwrites, conf0 |-> l.conf0, wait0 |-> l.wait0,
   again |-> l.again]

\* a step out of "idle" is the call itself: the sheet is remembered then
Remember(p) ==
  before' = IF before.on /\ pc[p] = "idle" THEN [before EXCEPT !.rows = rows]
            ELSE before

Return(p, l, result, ret) ==
  /\ pc' = [pc EXCEPT ![p] = "idle"]
  /\ loc' = [loc EXCEPT ![p] = NoLoc]
  /\ last' = Done(l, result, ret)
  /\ Remember(p)

Goto(p, l, label) ==
  /\ pc' = [pc EXCEPT ![p] = label]
  /\ loc' = [loc EXCEPT ![p] = l]
  /\ last' = NoLast
  /\ Remember(p)

\* ----------------------------------------------------------------- actions
\* the clock
Tick ==
  /\ now < MaxTime
  /\ now' = now + 1
  /\ last' = NoLast
  /\ UNCHANGED <<sessions, rows, pc, loc, before>>

\* write_session: the admin creates a session
write_session(capacity, cutoff_utc) ==
  /\ Len(sessions) < MaxSessions
  /\ sessions' = Append(sessions, [capacity |-> capacity, cutoff_utc |-> cutoff_utc])
  /\ last' = NoLast
  /\ UNCHANGED <<rows, now, pc, loc, before>>

\* ValidInput without the strip of the name
ValidInput_NoStrip(name, role) == name # <<>> /\ role \in {"core", "outsider"}

\* append_signup, lines 125-128: the validation of the inputs
ValidInput(name, role) == Strip(name) # <<>> /\ role \in {"core", "outsider"}

\* append_signup, lines 131-132: the duplicate check on the active signups
IsDuplicate(data, sid, name) ==
  \E i \in Range(read_signups(data, sid)) : NameKey(data[i].name) = NameKey(name)

\* NewRow with the status "confirmed" in place of "waitlist"
NewRow_Confirmed(sid, name, role, t) ==
  [session_id |-> sid, name |-> Strip(name), role |-> role,
   created_utc |-> t, status |-> "confirmed"]

\* append_signup, lines 136-144: the appended row
NewRow(sid, name, role, t) ==
  [session_id |-> sid, name |-> Strip(name), role |-> role,
   created_utc |-> t, status |-> "waitlist"]

\* update_signup_status that writes every row of the signup's session
update_signup_status_BySession(data, signup_id, new_status) ==
  IF signup_id \in 1..Len(data)
  THEN [i \in 1..Len(data) |->
          IF data[i].session_id = data[signup_id].session_id
          THEN [data[i] EXCEPT !.status = new_status] ELSE data[i]]
  ELSE data

\* update_signup_status: the first row with the id gets the status
update_signup_status(data, signup_id, new_status) ==
  IF signup_id \in 1..Len(data) THEN update_cell(data, signup_id, new_status)
  ELSE data

\* LoopDone without the test promoted >= remaining
LoopDone_NoLimit(l) == l.writes = <<>>

\* auto_fill_from_waitlist, lines 227-229: the loop over the candidates ends
LoopDone(l) == l.writes = <<>> \/ l.promoted >= l.remaining

\* FillReturn without the subtraction of promoted
FillReturn_NoSubtract(l) == <<l.promoted, l.remaining>>

\* auto_fill_from_waitlist, line 232
FillReturn(l) == <<l.promoted, Max(0, l.remaining - l.promoted)>>

\* append_signup is called.  (A call that would get through to append_row is
\* made only while the sheet has room for the row.)
RegisterCall(p, sid, name, role, limit) ==
  /\ pc[p] = "idle"
  /\ SessionExists(sessions, sid)
  /\ Len(rows) < limit \/ ~ValidInput(name, role) \/ IsDuplicate(rows, sid, name)
  /\ Goto(p, [Begin("register", sid) EXCEPT !.name = name, !.role = role],
          "reg_check")
  /\ UNCHANGED <<sessions, rows, now>>

\* append_signup, lines 125-133: validation, read_signups, the duplicate check
RegisterCheck(p, limit) ==
  /\ pc[p] = "reg_check"
  /\ LET l == loc[p] IN
       IF ~ValidInput(l.name, l.role) THEN Return(p, l, "validation", <<0, 0>>)
       ELSE IF IsDuplicate(rows, l.sid, l.name)
            THEN Return(p, l, "duplicate", <<0, 0>>)
            ELSE Len(rows) < limit /\ Goto(p, l, "append")
  /\ UNCHANGED <<sessions, rows, now>>

\* append_signup: ws_signups.append_row, then on to apply_priority_logic
RegisterAppend(p, limit) ==
  /\ pc[p] = "append"
  /\ Len(rows) < limit
  /\ rows' = Append(rows, NewRow(loc[p].sid, loc[p].name, loc[p].role, now))
  /\ Goto(p, loc[p], "rec_read")
  /\ UNCHANGED <<sessions, now>>

\* apply_priority_logic called on its own
RecomputeCall(p, sid) ==
  /\ pc[p] = "idle"
  /\ sid = NoSession \/ SessionExists(sessions, sid)
  /\ Goto(p, [Begin("recompute", sid) EXCEPT
               !.again = (last.op = "recompute" /\ last.sid = sid
                          /\ last.result = "done")],
          "rec_read")
  /\ UNCHANGED <<sessions, rows, now>>

\* apply_priority_logic, lines 179-191: the session, read_signups, the sort
RecomputeRead(p) ==
  /\ pc[p] = "rec_read"
  /\ LET l == loc[p] IN
       IF ~SessionExists(sessions, l.sid)
       THEN Return(p, l, IF l.op = "register" THEN "ok" ELSE "nosession", <<0, 0>>)
       ELSE Goto(p, [l EXCEPT !.to_confirm =
                       ToConfirm(rows, l.sid, sessions[l.sid].capacity)], "rec_data")
  /\ UNCHANGED <<sessions, rows, now>>

\* apply_priority_logic, lines 194-202: get_all_values and the rows to rewrite
RecomputeData(p) ==
  /\ pc[p] = "rec_data"
  /\ LET l == loc[p]
         w == PriorityWrites(rows, l.sid, l.to_confirm, 1)
     IN IF w = <<>>
        THEN Return(p, l, IF l.op = "register" THEN "ok" ELSE "done", <<0, 0>>)
        ELSE Goto(p, [l EXCEPT !.writes = w], "rec_write")
  /\ UNCHANGED <<sessions, rows, now>>

\* apply_priority_logic, line 203: one update_cell of the write-back loop
RecomputeWrite(p) ==
  /\ pc[p] = "rec_write"
  /\ LET l == loc[p]
         w == Head(l.writes)
         l2 == [l EXCEPT !.writes = Tail(l.writes), !.nwrites = l.nwrites + 1]
     IN /\ rows' = update_cell(rows, w[1], w[2])
        /\ IF l2.writes = <<>>
           THEN Return(p, l2, IF l.op = "register" THEN "ok" ELSE "done", <<0, 0>>)
           ELSE Goto(p, l2, "rec_write")
  /\ UNCHANGED <<sessions, now>>

\* auto_fill_from_waitlist, lines 207-213: the session and the cutoff gate
PromoteCall(p, sid, force) ==
  /\ pc[p] = "idle"
  /\ sid = NoSession \/ SessionExists(sessions, sid)
  /\ LET l == [Begin("promote", sid) EXCEPT
                 !.again = (last.op = "register" /\ last.sid = sid
                            /\ last.result = "ok")]
     IN
       IF ~SessionExists(sessions, sid) THEN Return(p, l, "nosession", <<0, 0>>)
       ELSE IF Gated(force, sessions[sid].cutoff_utc, now)
            THEN Return(p, l, "gated", <<0, 0>>)
            ELSE Goto(p, l, "fill_read")
  /\ UNCHANGED <<sessions, rows, now>>

\* auto_fill_from_waitlist, lines 215-229: read_signups, the free slots, the
\* candidates
FillRead(p) ==
  /\ pc[p] = "fill_read"
  /\ LET l == loc[p]
         remaining == Remaining(rows, l.sid, sessions[l.sid].capacity)
         l2 == [l EXCEPT !.remaining = remaining,
                         !.writes = Candidates(rows, l.sid),
                         !.conf0 = ConfirmedCount(rows, l.sid),
                         !.wait0 = Len(Candidates(rows, l.sid))]
     IN IF remaining = 0 THEN Return(p, l2, "full", <<0, 0>>)
        ELSE IF LoopDone(l2) THEN Return(p, l2, "done", FillReturn(l2))
        ELSE Goto(p, l2, "fill_write")
  /\ UNCHANGED <<sessions, rows, now>>

\* auto_fill_from_waitlist, lines 230-232: one update_signup_status of the loop
FillWrite(p) ==
  /\ pc[p] = "fill_write"
  /\ LET l == loc[p]
         l2 == [l EXCEPT !.writes = Tail(l.writes), !.promoted = l.promoted + 1,
                         !.nwrites = l.nwrites + 1]
     IN /\ rows' = update_signup_status(rows, Head(l.writes), "confirmed")
        /\ IF LoopDone(l2) THEN Return(p, l2, "done", FillReturn(l2))
           ELSE Goto(p, l2, "fill_write")
  /\ UNCHANGED <<sessions, now>>

\* the admin's "Remove player": update_signup_status(id, "removed") for a
\* signup picked from the active ones
RemoveSignup(p, id) ==
  /\ pc[p] = "idle"
  /\ id \in 1..Len(rows)
  /\ rows[id].status # "removed"
  /\ rows' = update_signup_status(rows, id, "removed")
  /\ Return(p, [Begin("remove", rows[id].session_id) EXCEPT !.nwrites = 1],
            "done", <<0, 0>>)
  /\ UNCHANGED <<sessions, now>>

\* the steps of one browser session; `names` and `roles` are what it may
\* type and `limit` the number of rows the sheet may grow to
Step(p, names, roles, limit) ==
  \/ \E sid \in 1..Len(sessions), name \in names, role \in roles :
       RegisterCall(p, sid, name, role, limit)
  \/ RegisterCheck(p, limit)
  \/ RegisterAppend(p, limit)
  \/ \E sid \in 0..Len(sessions) : RecomputeCall(p, sid)
  \/ RecomputeRead(p)
  \/ RecomputeData(p)
  \/ RecomputeWrite(p)
  \/ \E sid \in 0..Len(sessions), force \in BOOLEAN : PromoteCall(p, sid, force)
  \/ FillRead(p)
  \/ FillWrite(p)
  \/ \E id \in 1..Len(rows) : RemoveSignup(p, id)

Admin ==
  \E capacity \in 1..MaxCapacity, cutoff_utc \in 1..MaxTime :
    write_session(capacity, cutoff_utc)

\* one call at a time: each runs to completion before the next is made
Next == Tick \/ Admin \/ \E p \in SeqProcs : Step(p, NameInputs, RoleInputs, MaxRows)

Spec == Init /\ [][Next]_vars

\* two browser sessions whose requests interleave freely, on one session of
\* the sheet, within one second of the clock
InitConc ==
  /\ \E capacity \in 1..ConcCapacity :
       sessions = <<[capacity |-> capacity, cutoff_utc |-> MaxTime]>>
  /\ rows = <<>>
  /\ now = 0
  /\ pc = [p \in Procs |-> "idle"]
  /\ loc = [p \in Procs |-> NoLoc]
  /\ last = NoLast
  /\ before = NoBefore

NextConc == \E p \in Procs : Step(p, ConcNames, ConcRoles, ConcRows)

SpecConc == InitConc /\ [][NextConc]_vars

\* A request to the sheet raises (gspread's APIError, a lost connection).  No
\* function of the app catches it or undoes what the call has written so far:
\* the exception ends the call where it stands, with the failed request not
\* applied.
StoreFails(p) ==
  /\ pc[p] # "idle"
  /\ Return(p, loc[p], "error", <<0, 0>>)
  /\ UNCHANGED <<sessions, rows, now>>

\* one call at a time on one session of the sheet, any request of which may
\* fail
InitFail ==
  /\ \E capacity \in 1..ConcCapacity :
       sessions = <<[capacity |-> capacity, cutoff_utc |-> MaxTime]>>
  /\ rows = <<>>
  /\ now = 0
  /\ pc = [p \in Procs |-> "idle"]
  /\ loc = [p \in Procs |-> NoLoc]
  /\ last = NoLast
  /\ before = [on |-> TRUE, rows |-> <<>>]

NextFail ==
  \E p \in SeqProcs : Step(p, ConcNames, ConcRoles, ConcRows) \/ StoreFails(p)

SpecFail == InitFail /\ [][NextFail]_vars

\* one call at a time on a sheet with two sessions
InitTwo ==
  /\ \E c1, c2 \in 1..ConcCapacity :
       sessions = <<[capacity |-> c1, cutoff_utc |-> MaxTime],
                    [capacity |-> c2, cutoff_utc |-> MaxTime]>>
  /\ rows = <<>>
  /\ now = 0
  /\ pc = [p \in Procs |-> "idle"]
  /\ loc = [p \in Procs |-> NoLoc]
  /\ last = NoLast
  /\ before = NoBefore

NextTwo == \E p \in SeqProcs : Step(p, ConcNames, ConcRoles, MaxRows)

SpecTwo == InitTwo /\ [][NextTwo]_vars

\* Registrations of two browser sessions interleave freely; a recompute on
\* its own is called only while no call is in progress (Quiet), and nothing
\* is called while it runs.
Quiet == \A p \in Procs : pc[p] = "idle"

RecomputeAlone == \A q \in Procs : loc[q].op # "recompute"

InitReg ==
  /\ \E capacity \in 1..RegCapacity :
       sessions = <<[capacity |-> capacity, cutoff_utc |-> MaxTime]>>
  /\ rows = <<>>
  /\ now = 0
  /\ pc = [p \in Procs |-> "idle"]
  /\ loc = [p \in Procs |-> NoLoc]
  /\ last = NoLast
  /\ before = NoBefore

NextReg ==
  \E p \in Procs :
    \/ RecomputeAlone /\ \E sid \in 1..Len(sessions), name \in ConcNames,
                               role \in ConcRoles :
                            RegisterCall(p, sid, name, role, RegRows)
    \/ RegisterCheck(p, RegRows)
    \/ RegisterAppend(p, RegRows)
    \/ Quiet /\ \E sid \in 1..Len(sessions) : RecomputeCall(p, sid)
    \/ RecomputeRead(p)
    \/ RecomputeData(p)
    \/ RecomputeWrite(p)

SpecReg == InitReg /\ [][NextReg]_vars

\* Promotions of two browser sessions interleave freely with each other;
\* registrations, recomputes and removals are made, by one browser session,
\* only while no call is in progress, and no promotion is called while one of
\* them runs.
OnlyPromotes == \A q \in Procs : loc[q].op \in {"none", "promote"}

InitPromote ==
  /\ \E capacity \in 1..PromCapacity :
       sessions = <<[capacity |-> capacity, cutoff_utc |-> MaxTime]>>
  /\ rows = <<>>
  /\ now = 0
  /\ pc = [p \in Procs |-> "idle"]
  /\ loc = [p \in Procs |-> NoLoc]
  /\ last = NoLast
  /\ before = NoBefore

NextPromote ==
  \/ \E p \in SeqProcs :
       \/ Quiet /\ \E sid \in 1..Len(sessions), name \in PromNames,
                      role \in ConcRoles :
                   RegisterCall(p, sid, name, role, PromRows)
       \/ RegisterCheck(p, PromRows)
       \/ RegisterAppend(p, PromRows)
       \/ Quiet /\ \E sid \in 1..Len(sessions) : RecomputeCall(p, sid)
       \/ RecomputeRead(p)
       \/ RecomputeData(p)
       \/ RecomputeWrite(p)
       \/ Quiet /\ \E id \in 1..Len(rows) : RemoveSignup(p, id)
  \/ \E p \in Procs :
       \/ OnlyPromotes /\ \E sid \in 1..Len(sessions), force \in BOOLEAN :
                            PromoteCall(p, sid, force)
       \/ FillRead(p)
       \/ FillWrite(p)

SpecPromote == InitPromote /\ [][NextPromote]_vars

\* ------------------------------------------------------------ properties
\* The vocabulary of the properties, stated on the sheet itself.
ActiveOf(sid) ==
  {i \in 1..Len(rows) : rows[i].session_id = sid /\ rows[i].status # "removed"}

ConfirmedOf(sid) == {i \in ActiveOf(sid) : rows[i].status = "confirmed"}

WaitlistedOf(sid) == {i \in ActiveOf(sid) : rows[i].status = "waitlist"}

CapacityOf(sid) == sessions[sid].capacity

\* the person a typed or stored name stands for: the name trimmed and
\* case-folded, written out for the names of the model
PersonOf(name) ==
  CASE name \in {<<"A">>, <<"a">>, <<"a", " ">>} -> "a"
    [] name \in {<<"b">>} -> "b"
    [] name \in {<<"c">>} -> "c"
    [] OTHER -> ""

\* signup i comes before signup j in (core first, then createdAt) order
Precedes(i, j) ==
  \/ rows[i].role = "core" /\ rows[j].role = "outsider"
  \/ rows[i].role = rows[j].role /\ rows[i].created_utc <= rows[j].created_utc

\* a run of apply_priority_logic has just completed, on its own or as the
\* last part of a registration
RecomputeReturned ==
  \/ last.op = "recompute" /\ last.result = "done"
  \/ last.op = "register" /\ last.result = "ok"

\* C1: whenever no operation is in progress, after any sequence of completed
\* register, recompute, promote and remove operations, every session has at
\* most `capacity` confirmed signups.
C1_CapacityAfterOperations ==
  Quiet => \A sid \in 1..Len(sessions) :
             Cardinality(ConfirmedOf(sid)) <= CapacityOf(sid)

\* C1 witness: a recompute has completed on a full session with a waitlist
C1_Witness ==
  /\ Quiet
  /\ last.op = "recompute" /\ last.result = "done"
  /\ Cardinality(ConfirmedOf(last.sid)) = CapacityOf(last.sid)
  /\ WaitlistedOf(last.sid) # {}

\* C2: right after a completed recompute of a session with capacity C, the
\* confirmed signups are the first C active signups in (core first, then
\* createdAt) order: there are min(C, active) of them, each precedes every
\* other active signup, every other active signup is waitlisted, and no core
\* is waitlisted while an outsider is confirmed.
C2_PriorityOrdering ==
  RecomputeReturned =>
    LET sid == last.sid IN
      /\ Cardinality(ConfirmedOf(sid)) = Min(CapacityOf(sid), Cardinality(ActiveOf(sid)))
      /\ ActiveOf(sid) = ConfirmedOf(sid) \cup WaitlistedOf(sid)
      /\ \A i \in ConfirmedOf(sid), j \in WaitlistedOf(sid) : Precedes(i, j)
      /\ ~\E i \in WaitlistedOf(sid), j \in ConfirmedOf(sid) :
            rows[i].role = "core" /\ rows[j].role = "outsider"

\* C2 witness: after a recompute a core is confirmed ahead of an outsider who
\* signed up strictly earlier and is waitlisted
C2_Witness ==
  /\ RecomputeReturned
  /\ \E i \in ConfirmedOf(last.sid), j \in WaitlistedOf(last.sid) :
       /\ rows[i].role = "core" /\ rows[j].role = "outsider"
       /\ rows[j].created_utc < rows[i].created_utc

\* C3: once a signup is removed it stays removed, whatever step of whatever
\* operation comes next.
C3_RemovedStaysRemoved ==
  [][\A i \in 1..Len(rows) :
       rows[i].status = "removed" => rows'[i].status = "removed"]_vars

\* C4: in every reachable state, between the writes of an operation and
\* under interleaving, no session has more confirmed signups than capacity.
C4_NeverOverCapacity ==
  \A sid \in 1..Len(sessions) : Cardinality(ConfirmedOf(sid)) <= CapacityOf(sid)

\* a call of auto_fill_from_waitlist has just returned from beyond its gate
PromoteReturned == last.op = "promote" /\ last.result \in {"done", "full"}

\* C5 as stated: a promotion that ran returns the number it promoted and the
\* number of signups still waitlisted afterwards.
C5_ReturnsWaitlistCount ==
  last.op = "promote" /\ last.result = "done" =>
    /\ last.ret[1] = Cardinality(ConfirmedOf(last.sid)) - last.conf0
    /\ last.ret[2] = Cardinality(WaitlistedOf(last.sid))

\* C5 as amended: a promotion that passed its gate returns the number it
\* promoted and the number of slots still free afterwards,
\* max(0, capacity - confirmed), whatever is left on the waitlist.
C5_ReturnsFreeSlots ==
  PromoteReturned =>
    /\ last.ret[1] = Cardinality(ConfirmedOf(last.sid)) - last.conf0
    /\ last.ret[2] = Max(0, CapacityOf(last.sid) - Cardinality(ConfirmedOf(last.sid)))

\* C5 witness: a promotion confirmed someone, filled the session and left a
\* signup on the waitlist, and its second result is 0
C5_Witness ==
  /\ last.op = "promote" /\ last.result = "done"
  /\ last.ret[1] >= 1
  /\ last.ret[2] = 0
  /\ WaitlistedOf(last.sid) # {}

\* C6: a promotion without force on a session made strictly before its cutoff
\* returns (0,0) at once and leaves the sheet as it is; made at or after the
\* cutoff, or with force, it goes on to read the signups.
C6_CutoffGate ==
  [][\A p \in Procs :
       pc[p] = "idle" /\ (pc'[p] = "fill_read" \/ last'.op = "promote") =>
       \A sid \in 1..Len(sessions), force \in BOOLEAN :
       PromoteCall(p, sid, force) =>
         IF ~force /\ now < sessions[sid].cutoff_utc
         THEN /\ pc'[p] = "idle"
              /\ last'.op = "promote" /\ last'.ret = <<0, 0>>
              /\ rows' = rows
         ELSE pc'[p] = "fill_read" /\ rows' = rows]_vars

\* C6 witness: a promotion was refused by the gate although a slot was free
\* and a signup was waiting
C6_Witness ==
  /\ last.op = "promote" /\ last.result = "gated"
  /\ Cardinality(ConfirmedOf(last.sid)) < CapacityOf(last.sid)
  /\ WaitlistedOf(last.sid) # {}
  /\ now < sessions[last.sid].cutoff_utc

\* C7: a promotion that passed its gate, run on its own, promotes exactly
\* min(max(0, capacity - confirmed), active non-confirmed) signups, counted
\* when it was called.
C7_PromotesMinOfFreeAndWaiting ==
  PromoteReturned =>
    /\ last.ret[1] = Min(Max(0, CapacityOf(last.sid) - last.conf0), last.wait0)
    /\ Cardinality(ConfirmedOf(last.sid)) = last.conf0 + last.ret[1]
    /\ Cardinality(WaitlistedOf(last.sid)) = last.wait0 - last.ret[1]

\* C7 witness: the only confirmed signup of a capacity-1 session was removed
\* and the promotion confirmed one of the two that were waiting
C7_Witness ==
  /\ PromoteReturned
  /\ CapacityOf(last.sid) = 1
  /\ last.conf0 = 0 /\ last.wait0 = 2 /\ last.ret[1] = 1
  /\ \E i \in 1..Len(rows) : rows[i].session_id = last.sid /\ rows[i].status = "removed"

\* C8: no two active signups of a session are the same person, in any
\* reachable state under any interleaving.
C8_UniqueActiveNames ==
  \A sid \in 1..Len(sessions) : \A i, j \in ActiveOf(sid) :
    i # j => PersonOf(rows[i].name) # PersonOf(rows[j].name)

\* C9: a registration with valid inputs whose name, trimmed and case-folded,
\* is that of an active signup of the session is refused as a duplicate and
\* leaves the sheet as it is.
C9_DuplicateRejected ==
  [][\A p \in Procs :
       /\ pc[p] = "reg_check" /\ pc'[p] # "reg_check"
       /\ PersonOf(loc[p].name) # "" /\ loc[p].role \in {"core", "outsider"}
       /\ \E i \in ActiveOf(loc[p].sid) :
            PersonOf(rows[i].name) = PersonOf(loc[p].name)
       => /\ pc'[p] = "idle"
          /\ last'.op = "register" /\ last'.result = "duplicate"
          /\ rows' = rows]_vars

\* C9 witness: "a " was refused because "A" is an active signup
C9_Witness ==
  /\ last.op = "register" /\ last.result = "duplicate"
  /\ last.name = <<"a", " ">>
  /\ \E i \in ActiveOf(last.sid) : rows[i].name = <<"A">>

\* C10: a recompute called right after a completed recompute of the same
\* session never reaches a status write and leaves every status as it is.
C10_RecomputeIdempotent ==
  [][\A p \in Procs :
       pc[p] \in {"rec_read", "rec_data", "rec_write"} /\ loc[p].again
       => rows' = rows /\ pc'[p] # "rec_write"]_vars

\* C10 witness: the second of two recomputes in a row has completed, without
\* a write, on a session with confirmed and waitlisted signups
C10_Witness ==
  /\ last.op = "recompute" /\ last.again /\ last.result = "done"
  /\ last.nwrites = 0
  /\ ConfirmedOf(last.sid) # {} /\ WaitlistedOf(last.sid) # {}

\* signup i stands before signup j in the order apply_priority_logic sorts
\* into: core first, then createdAt, then (the sort being stable) the sheet
Before(i, j) ==
  \/ rows[i].role = "core" /\ rows[j].role = "outsider"
  \/ /\ rows[i].role = rows[j].role
     /\ \/ rows[i].created_utc < rows[j].created_utc
        \/ rows[i].created_utc = rows[j].created_utc /\ i < j

\* the last row of the sheet is a signup of session sid and is confirmed
\* exactly if fewer than `capacity` active signups of sid stand before it
LastRowPlaced(sid) ==
  LET n == Len(rows)
      ahead == {i \in ActiveOf(sid) \ {n} : Before(i, n)}
  IN /\ n >= 1
     /\ rows[n].session_id = sid
     /\ rows[n].status \in {"confirmed", "waitlist"}
     /\ rows[n].status = "confirmed" <=> Cardinality(ahead) < CapacityOf(sid)

\* C11: a registration run on its own that gets through appends exactly one
\* row, for the person and role given, with status waitlist, and leaves the
\* other rows as they are; when it returns, the recompute has run and the new
\* signup is confirmed exactly if it is among the first `capacity` active
\* signups in (core first, then createdAt) order, whatever promotions and
\* removals came before.
C11_RegisterAppendsAndPlaces ==
  [][/\ \A p \in Procs :
          pc[p] = "append" /\ pc'[p] # "append" =>
            /\ Len(rows') = Len(rows) + 1
            /\ SubSeq(rows', 1, Len(rows)) = rows
            /\ rows'[Len(rows')].session_id = loc[p].sid
            /\ PersonOf(rows'[Len(rows')].name) = PersonOf(loc[p].name)
            /\ rows'[Len(rows')].role = loc[p].role
            /\ rows'[Len(rows')].status = "waitlist"
            /\ pc'[p] = "rec_read"
     /\ \A p \in Procs :
          loc[p].op = "register" /\ pc[p] # "append" => Len(rows') = Len(rows)
     /\ (last.op = "register" /\ last.result = "ok" => LastRowPlaced(last.sid))'
    ]_vars

\* C11 witness: a registration has returned with its signup on the waitlist,
\* on a session where a signup was removed earlier and a core is confirmed
C11_Witness ==
  /\ last.op = "register" /\ last.result = "ok"
  /\ rows[Len(rows)].status = "waitlist"
  /\ \E i \in 1..Len(rows) : rows[i].session_id = last.sid /\ rows[i].status = "removed"
  /\ \E i \in ConfirmedOf(last.sid) : rows[i].role = "core"

\* C12: a removal sets the status of the one signup it names, an active one,
\* to removed and leaves every other row as it is; in particular it confirms
\* nobody when it frees a slot, and no step between calls (the clock, the
\* admin's new session, a refused promotion) changes a row either, so a
\* waiting signup stays waiting until a promotion or a registration runs.
C12_RemoveChangesOnlyTarget ==
  [][/\ last'.op = "remove" =>
          \E id \in 1..Len(rows) :
            /\ rows[id].status # "removed"
            /\ rows' = [rows EXCEPT ![id].status = "removed"]
     /\ Quiet /\ Quiet' /\ last'.op # "remove" => rows' = rows
    ]_vars

\* C12 witness: a confirmed signup has just been removed from a session where
\* someone waits: a slot is free and the waitlist is not empty
C12_Witness ==
  /\ last.op = "remove" /\ last.result = "done"
  /\ Cardinality(ConfirmedOf(last.sid)) < CapacityOf(last.sid)
  /\ WaitlistedOf(last.sid) # {}
  /\ \E i \in 1..Len(rows) : rows[i].session_id = last.sid /\ rows[i].status = "removed"

\* C13: when a request to the sheet fails inside a registration, a recompute
\* or a promotion, the call ends with the error and the signups sheet is
\* exactly what it was when the call was made: no row appended without its
\* recompute, no part of the status writes applied.
C13_FailureLeavesSheetUnchanged ==
  last.result = "error" /\ last.op \in {"register", "recompute", "promote"}
    => rows = before.rows

\* a name that is empty once trimmed: nothing but spaces
BlankName(name) == \A i \in 1..Len(name) : name[i] = " "

\* C14: a registration whose name is blank after trimming, or whose role is
\* neither core nor outsider, ends at its check with a validation error and
\* leaves the sheet as it is: no row appended, no status changed.
C14_InvalidInputRejected ==
  [][\A p \in Procs :
       /\ pc[p] = "reg_check" /\ pc'[p] # "reg_check"
       /\ BlankName(loc[p].name) \/ loc[p].role \notin {"core", "outsider"}
       => /\ pc'[p] = "idle"
          /\ last'.op = "register" /\ last'.result = "validation"
          /\ rows' = rows]_vars

\* C14 witness: a registration was refused for its inputs on a session that
\* has signups, while the sheet had room for another row
C14_Witness ==
  /\ last.op = "register" /\ last.result = "validation"
  /\ ActiveOf(last.sid) # {}
  /\ Len(rows) < MaxRows

\* signup j stands strictly before signup i in the order a promotion takes
\* its candidates: outsiders first, then cores, each by createdAt
FillsBefore(j, i) ==
  \/ rows[j].role = "outsider" /\ rows[i].role = "core"
  \/ rows[j].role = rows[i].role /\ rows[j].created_utc < rows[i].created_utc

\* C15: every write of a promotion confirms one waitlisted signup of the
\* session before which no other waitlisted signup of the session stands in
\* (outsiders first, then cores, each by createdAt) order; so with k free
\* slots the promoted signups are the first k of that order, and with one
\* free slot, a waiting core and a waiting outsider, the outsider is taken.
C15_PromotesOutsidersFirst ==
  [][\A p \in Procs :
       pc[p] = "fill_write" /\ loc'[p] # loc[p] =>
         \E i \in WaitlistedOf(loc[p].sid) :
           /\ rows' = [rows EXCEPT ![i].status = "confirmed"]
           /\ \A j \in WaitlistedOf(loc[p].sid) : ~FillsBefore(j, i)]_vars

\* C15 witness: a promotion with one free slot took an outsider and left on
\* the waitlist a core who had signed up no later
C15_Witness ==
  /\ last.op = "promote" /\ last.result = "done" /\ last.ret = <<1, 0>>
  /\ last.conf0 = CapacityOf(last.sid) - 1
  /\ \E i \in ConfirmedOf(last.sid), j \in WaitlistedOf(last.sid) :
       /\ rows[i].role = "outsider" /\ rows[j].role = "core"
       /\ rows[j].created_utc <= rows[i].created_utc
       /\ j < i

\* C17: a completed recompute, on its own or at the end of a registration,
\* never leaves a slot free while a signup of the session waits; and a
\* promotion called right after a completed registration on the same session,
\* with or without force, promotes nobody and writes nothing.
C17_RecomputeNeverUnderfills ==
  /\ RecomputeReturned =>
       ~(/\ Cardinality(ConfirmedOf(last.sid)) < CapacityOf(last.sid)
         /\ WaitlistedOf(last.sid) # {})
  /\ last.op = "promote" /\ last.again =>
       /\ last.ret[1] = 0
       /\ last.nwrites = 0
       /\ last.result = "done" => last.wait0 = 0

\* C17 witness: a promotion called right after a registration got past its
\* gate, found the session full with a signup waiting, and promoted nobody
C17_Witness ==
  /\ last.op = "promote" /\ last.again /\ last.result = "full"
  /\ last.ret = <<0, 0>>
  /\ WaitlistedOf(last.sid) # {}
  /\ Cardinality(ConfirmedOf(last.sid)) = CapacityOf(last.sid)

\* C18: a promotion changes nothing but the status of waitlisted signups of
\* its own session, from waitlist to confirmed: its call and its read change
\* no row, and each of its writes leaves every row as it is except one
\* waitlisted signup of the session, which becomes confirmed.  Nobody is
\* demoted or removed, and the signups of other sessions stay as they are.
C18_PromoteOnlyConfirmsWaitlisted ==
  [][/\ \A p \in Procs :
          loc[p].op = "promote" /\ loc'[p] # loc[p] =>
            \A i \in 1..Len(rows) :
              \/ rows'[i] = rows[i]
              \/ /\ rows[i].session_id = loc[p].sid
                 /\ rows[i].status = "waitlist"
                 /\ rows'[i] = [rows[i] EXCEPT !.status = "confirmed"]
     /\ \A p \in Procs : loc[p].op = "promote" => Len(rows') = Len(rows)
     /\ Quiet /\ (last'.op = "promote" \/ \E p \in Procs : loc'[p].op = "promote")
          => rows' = rows
    ]_vars

\* C18 witness: a promotion has confirmed a signup of its session, where a
\* signup had been removed, while the other session has a signup of its own
C18_Witness ==
  /\ last.op = "promote" /\ last.result = "done" /\ last.ret[1] >= 1
  /\ \E i \in 1..Len(rows) : rows[i].session_id = last.sid /\ rows[i].status = "removed"
  /\ \E sid \in 1..Len(sessions) : sid # last.sid /\ ActiveOf(sid) # {}

\* C16: after any interleaving of registrations on one session, one recompute
\* run to completion with nothing else running leaves the session consistent:
\* min(capacity, active) signups are confirmed, they are exactly the active
\* signups with fewer than `capacity` active signups before them in (core
\* first, then createdAt) order, and every other active signup is waitlisted.
C16_RecomputeConverges ==
  last.op = "recompute" /\ last.result = "done" =>
    LET sid == last.sid
        first == {i \in ActiveOf(sid) :
                    Cardinality({j \in ActiveOf(sid) : Before(j, i)}) < CapacityOf(sid)}
    IN /\ Quiet
       /\ ConfirmedOf(sid) = first
       /\ WaitlistedOf(sid) = ActiveOf(sid) \ first
       /\ Cardinality(ConfirmedOf(sid)) = Min(CapacityOf(sid), Cardinality(ActiveOf(sid)))

\* C16 witness: the recompute found the session wrong after two overlapping
\* registrations and had to rewrite two statuses
C16_Witness ==
  /\ last.op = "recompute" /\ last.result = "done"
  /\ last.nwrites = 2
  /\ ConfirmedOf(last.sid) # {} /\ WaitlistedOf(last.sid) # {}

\* C19: while nothing but promotions is in progress, however the reads and
\* writes of two promotions of a session interleave, the session never has
\* more confirmed signups than its capacity.
C19_OverlappingPromotesKeepCapacity ==
  OnlyPromotes =>
    \A sid \in 1..Len(sessions) :
      Cardinality(ConfirmedOf(sid)) <= CapacityOf(sid)

\* C19 witness: two promotions read the same waitlist of two for the one free
\* slot; one has written and returned, the other is about to write the
\* signup the first one confirmed
C19_Witness ==
  /\ last.op = "promote" /\ last.result = "done" /\ last.ret[1] = 1
  /\ last.wait0 = 2
  /\ \E p \in Procs :
       /\ pc[p] = "fill_write" /\ loc[p].sid = last.sid
       /\ Len(loc[p].writes) = 2
       /\ rows[Head(loc[p].writes)].status = "confirmed"
       /\ Cardinality(ConfirmedOf(last.sid)) = CapacityOf(last.sid)

====
